---------------------------- MODULE Spec2Model ----------------------------
(***************************************************************************)
(* World Politics News API (src/main.py, src/schemas.py): the article and  *)
(* project routes, the admin gate, FastAPI's route dispatch and the        *)
(* document store the handlers call into.                                  *)
(*                                                                         *)
(* Python values carry their type as a tag, so that None, a bool, a str, a *)
(* datetime and the str that datetime.isoformat() returns stay distinct.   *)
(* A dict is a function from keys to values.  Of Article's string fields   *)
(* the model keeps title (summary, content, category, region, tags, author *)
(* and image_url pass through model_dump, the dict comprehension and $set  *)
(* exactly as title does); of Project's it keeps name and status.          *)
(***************************************************************************)
EXTENDS Integers, Sequences, FiniteSets, Bags, TLC

\* ObjectIds the store can hand out (over both collections).
MaxOid == 2
\* Last instant of the wall clock datetime.now() reads.
MaxTime == 1
\* Requests whose handler can be between two store calls at the same time.
NumProcs == 2

\* Query(24, ...) of list_articles and list_projects, Query(50, ...) of the admin listing.
ListLimitDefault == 24
AdminLimitDefault == 50

VARIABLES
    ADMIN_TOKEN,   \* os.getenv("ADMIN_TOKEN"), read once at import
    article,       \* db["article"]: ObjectId number -> document
    project,       \* db["project"]: ObjectId number -> document
    oidCounter,    \* ObjectIds generated so far
    now,           \* the wall clock
    inflight,      \* bag of the handlers between their first and their second store call
    last,          \* the response the latest step sent, and the handler that sent it
    deletedOk      \* history: articles whose DELETE answered {"status": "ok"}

vars == <<ADMIN_TOKEN, article, project, oidCounter, now, inflight, last, deletedOk>>

Oids == 1..MaxOid

---------------------------------------------------------------------------
\* Python values

None == <<"NoneType">>
Str(s) == <<"str", s>>
Bool(b) == <<"bool", b>>
Datetime(t) == <<"datetime", t>>
\* the str that Datetime(t).isoformat() returns
IsoStr(t) == <<"isostr", t>>
\* the 24-character hex str that names ObjectId n
HexStr(n) == <<"hexstr", n>>
ObjectIdOf(n) == <<"ObjectId", n>>

\* bool(v)
Truthy(v) == v # None /\ v # Bool(FALSE) /\ v # Str("")

EmptyDict == <<>>

\* bson.ObjectId(s): InvalidId unless s is a 24-character hex string
ObjectIdValid(s) == s[1] = "hexstr"
ObjectId(s) == ObjectIdOf(s[2])

\* {**d, **u}, which is also what $set does to a stored document
Merge(d, u) ==
    [k \in DOMAIN d \cup DOMAIN u |-> IF k \in DOMAIN u THEN u[k] ELSE d[k]]

serialize_doc(doc) ==
    LET d == IF "_id" \in DOMAIN doc /\ doc["_id"] # None
             THEN [k \in (DOMAIN doc \ {"_id"}) \cup {"id"} |->
                      IF k = "id" THEN HexStr(doc["_id"][2]) ELSE doc[k]]
             ELSE doc
    IN  [k \in DOMAIN d |->
            IF k \in {"created_at", "updated_at", "published_at"} /\ d[k][1] = "datetime"
            THEN IsoStr(d[k][2])
            ELSE d[k]]

---------------------------------------------------------------------------
\* Exceptions and responses

HTTPException(status_code, detail) ==
    [type |-> "HTTPException", status_code |-> status_code, detail |-> detail]
AuthError(detail) == HTTPException(401, detail)
InvalidId == [type |-> "InvalidId", status_code |-> 0, detail |-> <<"not a valid ObjectId">>]
TypeError == [type |-> "TypeError", status_code |-> 0, detail |-> <<"'NoneType' object is not a mapping">>]

\* str(e): Starlette's HTTPException prints "<status_code>: <detail>"
ExcStr(e) ==
    IF e.type = "HTTPException" THEN <<ToString(e.status_code)>> \o e.detail ELSE e.detail

\* what FastAPI answers for a raised HTTPException
Raised(e) == [status |-> e.status_code, detail |-> e.detail, shape |-> "error", body |-> <<>>]
\* except Exception as e: raise HTTPException(status_code=400, detail=str(e))
ExceptException(e) == Raised(HTTPException(400, ExcStr(e)))
Returned(shape, body) == [status |-> 200, detail |-> <<>>, shape |-> shape, body |-> body]

StatusOk == [status |-> Str("ok")]

---------------------------------------------------------------------------
\* The admin gate

AdminTokens == {None, Str(""), Str("secret")}
HeaderTokens == {None, Str(""), Str("secret"), Str("wrong")}

NoAuthError == [type |-> "none", status_code |-> 0, detail |-> <<>>]

require_admin(admin_token, x_admin_token) ==
    IF ~Truthy(admin_token) THEN AuthError(<<"Admin not configured">>)
    ELSE IF ~Truthy(x_admin_token) \/ x_admin_token # admin_token
         THEN AuthError(<<"Invalid admin token">>)
         ELSE NoAuthError

---------------------------------------------------------------------------
\* Route dispatch: the first registered route that matches handles the request

Routes == <<
    [method |-> "POST",   coll |-> "articles", item |-> "none",  handler |-> "create_article"],
    [method |-> "GET",    coll |-> "articles", item |-> "none",  handler |-> "list_articles"],
    [method |-> "GET",    coll |-> "articles", item |-> "param", handler |-> "get_article"],
    [method |-> "PUT",    coll |-> "articles", item |-> "param", handler |-> "update_article"],
    [method |-> "DELETE", coll |-> "articles", item |-> "param", handler |-> "delete_article"],
    [method |-> "GET",    coll |-> "articles", item |-> "admin", handler |-> "admin_list_articles"],
    [method |-> "POST",   coll |-> "projects", item |-> "none",  handler |-> "create_project"],
    [method |-> "GET",    coll |-> "projects", item |-> "none",  handler |-> "list_projects"],
    [method |-> "PUT",    coll |-> "projects", item |-> "param", handler |-> "update_project"],
    [method |-> "DELETE", coll |-> "projects", item |-> "param", handler |-> "delete_project"] >>

RouteMatches(r, req) ==
    /\ r.method = req.method
    /\ r.coll = req.coll
    /\ CASE r.item = "none"  -> req.seg = None
         [] r.item = "param" -> req.seg # None
         [] OTHER            -> req.seg = Str(r.item)

Route(req) ==
    LET hits == {i \in DOMAIN Routes : RouteMatches(Routes[i], req)}
    IN  IF hits = {} THEN "none"
        ELSE Routes[CHOOSE i \in hits : \A j \in hits : i <= j].handler

\* the handlers declared with Depends(require_admin)
GatedHandlers == {"create_article", "update_article", "delete_article", "admin_list_articles",
                  "create_project", "update_project", "delete_project"}

---------------------------------------------------------------------------
\* The document store

\* {"deleted": {"$ne": True}}: also matches a document without the field
NeTrue(doc, k) == k \notin DOMAIN doc \/ doc[k] # Bool(TRUE)
\* {k: v}
Eq(doc, k, v) == k \in DOMAIN doc /\ doc[k] = v

\* how the store orders a sort key: null first, then by value
SortRank(doc, k) == IF k \notin DOMAIN doc \/ doc[k] = None THEN 0 - 1 ELSE doc[k][2]

Min(a, b) == IF a < b THEN a ELSE b

\* find(filter).sort(key, -1).limit(limit): every order the store may return
\* (documents with equal keys come in any order)
FindSortLimit(coll, ids, key, limit) ==
    LET n == Cardinality(ids)
        orders == {s \in [1..n -> ids] :
                      /\ \A i, j \in 1..n : i # j => s[i] # s[j]
                      /\ \A i, j \in 1..n :
                            i < j => SortRank(coll[s[i]], key) >= SortRank(coll[s[j]], key)}
    IN  {[i \in 1..Min(n, limit) |-> coll[s[i]]] : s \in orders}


\* find_one(filter) and update_one(filter, ...) act on the documents the filter matches,
\* {n \in DOMAIN coll : filter(coll[n])}; a filter on "_id" matches at most one
\* update_one(filter, {"$set": update}) on the matched document
SetOne(coll, ids, update) ==
    [n \in DOMAIN coll |-> IF n \in ids THEN Merge(coll[n], update) ELSE coll[n]]
\* insert_one(doc) under a fresh ObjectId n
InsertOne(coll, n, doc) ==
    [m \in DOMAIN coll \cup {n} |-> IF m = n THEN Merge(doc, "_id" :> ObjectIdOf(n)) ELSE coll[m]]
\* delete_one(filter)
DeleteOne(coll, ids) == [n \in DOMAIN coll \ ids |-> coll[n]]

\* database.create_document: stamps created_at and updated_at, inserts
create_document_data(data, t) ==
    Merge(data, [created_at |-> Datetime(t), updated_at |-> Datetime(t)])

---------------------------------------------------------------------------
\* Requests

NoReq == [method |-> "none", coll |-> "none", seg |-> None, token |-> None,
          query |-> None, body |-> EmptyDict]
Request(method, coll, seg, token, query, body) ==
    [method |-> method, coll |-> coll, seg |-> seg, token |-> token,
     query |-> query, body |-> body]

\* path segments: the hex strings of the ObjectIds, and two that are no ObjectId
HexSegs == {HexStr(n) : n \in Oids}
Segs == HexSegs \cup {Str("admin"), Str("nothex")}

\* schemas.Article after validation and model_dump()
ArticleBodies ==
    {[title |-> Str("t1"), published |-> Bool(b), published_at |-> pa] :
        b \in BOOLEAN, pa \in {None}}
\* ArticleUpdate after model_dump()
ArticleUpdateBodies ==
    {[title |-> t, published |-> pb] :
        t \in {None, Str("t2")}, pb \in {None, Bool(TRUE), Bool(FALSE)}}
\* schemas.Project after validation and model_dump()
ProjectBodies == {[name |-> Str("n1"), status |-> Str("active")]}
\* ProjectUpdate after model_dump()
ProjectUpdateBodies ==
    {[name |-> n, status |-> s] : n \in {None, Str("n2")}, s \in {None, Str("paused")}}

\* a handler that has made its first store call on document id and goes on at pc
Waiting(pc, id) == [pc |-> pc, id |-> id]
Waitings == {Waiting(pc, HexStr(n)) :
                pc \in {"create_article_find", "update_article_find",
                        "create_project_find", "update_project_find"}, n \in Oids}
\* a worker is free to take up a request that makes two store calls
WorkerFree == BagCardinality(inflight) < NumProcs
Wait(pc, id) == inflight' = inflight (+) SetToBag({Waiting(pc, id)})
Resume(w) == BagIn(w, inflight) /\ inflight' = inflight (-) SetToBag({w})

\* the step answers a request
Respond(handler, resp) == last' = [handler |-> handler, resp |-> resp]
\* the step answers none
NoResponse == [handler |-> "none", resp |-> Raised(HTTPException(0, <<>>))]
Silent == last' = NoResponse
\* the server takes its next step once the response of the latest one is sent
Ready == last = NoResponse

Init ==
    /\ ADMIN_TOKEN \in AdminTokens
    /\ article = EmptyDict
    /\ project = EmptyDict
    /\ oidCounter = 0
    /\ now = 0
    /\ inflight = EmptyBag
    /\ last = NoResponse
    /\ deletedOk = {}

\* time passes
Tick ==
    /\ Ready
    /\ now < MaxTime
    /\ now' = now + 1
    /\ Silent
    /\ UNCHANGED <<ADMIN_TOKEN, article, project, oidCounter, inflight, deletedOk>>

\* the response of the latest step has left the server
send ==
    /\ ~Ready
    /\ Silent
    /\ UNCHANGED <<ADMIN_TOKEN, article, project, oidCounter, now, inflight, deletedOk>>

---------------------------------------------------------------------------
\* Articles

\* the comprehension without its "if v is not None"
NonNull_keep_all(d) == d

\* {k: v for k, v in payload.model_dump().items() if v is not None}
NonNull(d) == [k \in {j \in DOMAIN d : d[j] # None} |-> d[k]]
\* dict.setdefault(k, v)
SetDefault(d, k, v) == IF k \in DOMAIN d THEN d ELSE Merge(d, k :> v)

create_article_data(body, t) ==
    LET data == Merge(body, [deleted |-> Bool(FALSE)])
    IN  IF Truthy(data["published"]) /\ ~Truthy(data["published_at"])
        THEN Merge(data, [published_at |-> IsoStr(t)])
        ELSE data

\* POST /api/articles, up to create_document
create_article(req) ==
    /\ Ready
    /\ req.method = "POST" /\ req.coll = "articles" /\ req.seg = None
    /\ WorkerFree
    /\ Route(req) = "create_article"
    /\ LET auth == require_admin(ADMIN_TOKEN, req.token)
       IN  IF auth # NoAuthError
           THEN /\ Respond("create_article", Raised(auth))
                /\ UNCHANGED <<article, oidCounter, inflight>>
           ELSE /\ oidCounter < MaxOid
                /\ oidCounter' = oidCounter + 1
                /\ article' = InsertOne(article, oidCounter + 1,
                                 create_document_data(create_article_data(req.body, now), now))
                /\ Wait("create_article_find", HexStr(oidCounter + 1))
                /\ Silent
    /\ UNCHANGED <<ADMIN_TOKEN, project, now, deletedOk>>

\* find_one({"_id": ObjectId(id)}) and serialize_doc, as the second store call of
\* create_* and update_*: serialize_doc(None) raises TypeError
FindAndSerialize(coll, id) ==
    LET ids == {n \in DOMAIN coll : Eq(coll[n], "_id", ObjectId(id))}
    IN  IF ids = {} THEN ExceptException(TypeError)
        ELSE Returned("object", <<serialize_doc(coll[CHOOSE n \in ids : TRUE])>>)

create_article_find(w) ==
    /\ Ready
    /\ w.pc = "create_article_find"
    /\ Respond("create_article", FindAndSerialize(article, w.id))
    /\ Resume(w)
    /\ UNCHANGED <<ADMIN_TOKEN, article, project, oidCounter, now, deletedOk>>

list_articles_filter(doc) == Eq(doc, "published", Bool(TRUE)) /\ NeTrue(doc, "deleted")

\* GET /api/articles (q, region and category not given)
list_articles(req) ==
    /\ Ready
    /\ req.method = "GET" /\ req.coll = "articles" /\ req.seg = None
    /\ Route(req) = "list_articles"
    /\ \E docs \in FindSortLimit(article, {n \in DOMAIN article : list_articles_filter(article[n])},
                                "published_at", ListLimitDefault) :
          Respond("list_articles",
                  Returned("array", [i \in DOMAIN docs |-> serialize_doc(docs[i])]))
    /\ UNCHANGED <<ADMIN_TOKEN, article, project, oidCounter, now, inflight, deletedOk>>

get_article_filter(doc, oid) ==
    Eq(doc, "_id", oid) /\ Eq(doc, "published", Bool(TRUE)) /\ NeTrue(doc, "deleted")

\* the body of get_article: its response
get_article(article_id) ==
    IF ~ObjectIdValid(article_id) THEN ExceptException(InvalidId)
    ELSE LET ids == {n \in DOMAIN article : get_article_filter(article[n], ObjectId(article_id))}
         IN  IF ids = {}
             THEN ExceptException(HTTPException(404, <<"Article not found">>))
             ELSE Returned("object", <<serialize_doc(article[CHOOSE n \in ids : TRUE])>>)

admin_list_filter(doc, published) ==
    NeTrue(doc, "deleted") /\ (published # None => Eq(doc, "published", published))

\* the body of admin_list_articles (q not given): its possible responses
admin_list_articles(token, published) ==
    LET auth == require_admin(ADMIN_TOKEN, token)
    IN  IF auth # NoAuthError THEN {Raised(auth)}
        ELSE {Returned("array", [i \in DOMAIN docs |-> serialize_doc(docs[i])]) :
                docs \in FindSortLimit(article,
                            {n \in DOMAIN article : admin_list_filter(article[n], published)},
                            "updated_at", AdminLimitDefault)}

\* GET /api/articles/<seg>: answered by whichever of get_article and
\* admin_list_articles the dispatch selects
get_articles_item(req) ==
    /\ Ready
    /\ req.method = "GET" /\ req.coll = "articles" /\ req.seg # None
    /\ IF Route(req) = "get_article"
       THEN Respond("get_article", get_article(req.seg))
       ELSE \E resp \in admin_list_articles(req.token, req.query) :
                Respond("admin_list_articles", resp)
    /\ UNCHANGED <<ADMIN_TOKEN, article, project, oidCounter, now, inflight, deletedOk>>


\* update_article and update_project without their "if not update" check
NothingToUpdate_never(update) == FALSE

NothingToUpdate(update) == DOMAIN update = {}

update_article_set(payload, t) ==
    LET update == Merge(NonNull(payload), [updated_at |-> Datetime(t)])
    IN  IF "published" \in DOMAIN update /\ Truthy(update["published"])
        THEN SetDefault(update, "published_at", IsoStr(t))
        ELSE update

\* the filter of update_article without its "deleted" clause
update_article_filter_by_id(doc, oid) == Eq(doc, "_id", oid)

update_article_filter(doc, oid) == Eq(doc, "_id", oid) /\ NeTrue(doc, "deleted")

\* PUT /api/articles/{article_id}, up to update_one
update_article(req) ==
    /\ Ready
    /\ req.method = "PUT" /\ req.coll = "articles" /\ req.seg # None
    /\ WorkerFree
    /\ Route(req) = "update_article"
    /\ LET auth == require_admin(ADMIN_TOKEN, req.token)
           ids == {n \in DOMAIN article : update_article_filter(article[n], ObjectId(req.seg))}
           Fail(resp) == /\ Respond("update_article", resp)
                         /\ UNCHANGED <<article, inflight>>
       IN  IF auth # NoAuthError THEN Fail(Raised(auth))
           ELSE IF NothingToUpdate(NonNull(req.body))
           THEN Fail(ExceptException(HTTPException(400, <<"Nothing to update">>)))
           ELSE IF ~ObjectIdValid(req.seg) THEN Fail(ExceptException(InvalidId))
           ELSE IF ids = {}
           THEN /\ article' = SetOne(article, ids, update_article_set(req.body, now))
                /\ Respond("update_article",
                           ExceptException(HTTPException(404, <<"Article not found">>)))
                /\ UNCHANGED inflight
           ELSE /\ article' = SetOne(article, ids, update_article_set(req.body, now))
                /\ Wait("update_article_find", req.seg)
                /\ Silent
    /\ UNCHANGED <<ADMIN_TOKEN, project, oidCounter, now, deletedOk>>

update_article_find(w) ==
    /\ Ready
    /\ w.pc = "update_article_find"
    /\ Respond("update_article", FindAndSerialize(article, w.id))
    /\ Resume(w)
    /\ UNCHANGED <<ADMIN_TOKEN, article, project, oidCounter, now, deletedOk>>

delete_article_filter(doc, oid) == Eq(doc, "_id", oid)

\* the $set of delete_article without its "published" entry
delete_article_set_flag_only(t) == [deleted |-> Bool(TRUE), updated_at |-> Datetime(t)]

delete_article_set(t) ==
    [deleted |-> Bool(TRUE), published |-> Bool(FALSE), updated_at |-> Datetime(t)]

\* DELETE /api/articles/{article_id}
delete_article(req) ==
    /\ Ready
    /\ req.method = "DELETE" /\ req.coll = "articles" /\ req.seg # None
    /\ Route(req) = "delete_article"
    /\ LET auth == require_admin(ADMIN_TOKEN, req.token)
           ids == {n \in DOMAIN article : delete_article_filter(article[n], ObjectId(req.seg))}
           Fail(resp) == /\ Respond("delete_article", resp)
                         /\ UNCHANGED <<article, deletedOk>>
       IN  IF auth # NoAuthError THEN Fail(Raised(auth))
           ELSE IF ~ObjectIdValid(req.seg) THEN Fail(ExceptException(InvalidId))
           ELSE IF ids = {}
           THEN Fail(ExceptException(HTTPException(404, <<"Article not found">>)))
           ELSE /\ article' = SetOne(article, ids, delete_article_set(now))
                /\ Respond("delete_article", Returned("object", <<StatusOk>>))
                /\ deletedOk' = deletedOk \cup ids
    /\ UNCHANGED <<ADMIN_TOKEN, project, oidCounter, now, inflight>>

---------------------------------------------------------------------------
\* Projects

\* POST /api/projects, up to create_document
create_project(req) ==
    /\ Ready
    /\ req.method = "POST" /\ req.coll = "projects" /\ req.seg = None
    /\ WorkerFree
    /\ Route(req) = "create_project"
    /\ LET auth == require_admin(ADMIN_TOKEN, req.token)
       IN  IF auth # NoAuthError
           THEN /\ Respond("create_project", Raised(auth))
                /\ UNCHANGED <<project, oidCounter, inflight>>
           ELSE /\ oidCounter < MaxOid
                /\ oidCounter' = oidCounter + 1
                /\ project' = InsertOne(project, oidCounter + 1,
                                        create_document_data(req.body, now))
                /\ Wait("create_project_find", HexStr(oidCounter + 1))
                /\ Silent
    /\ UNCHANGED <<ADMIN_TOKEN, article, now, deletedOk>>

create_project_find(w) ==
    /\ Ready
    /\ w.pc = "create_project_find"
    /\ Respond("create_project", FindAndSerialize(project, w.id))
    /\ Resume(w)
    /\ UNCHANGED <<ADMIN_TOKEN, article, project, oidCounter, now, deletedOk>>

\* GET /api/projects (tag and status not given): filters = {}
list_projects(req) ==
    /\ Ready
    /\ req.method = "GET" /\ req.coll = "projects" /\ req.seg = None
    /\ Route(req) = "list_projects"
    /\ \E docs \in FindSortLimit(project, DOMAIN project, "created_at", ListLimitDefault) :
          Respond("list_projects",
                  Returned("array", [i \in DOMAIN docs |-> serialize_doc(docs[i])]))
    /\ UNCHANGED <<ADMIN_TOKEN, article, project, oidCounter, now, inflight, deletedOk>>

update_project_set(payload, t) == Merge(NonNull(payload), [updated_at |-> Datetime(t)])

project_filter(doc, oid) == Eq(doc, "_id", oid)

\* PUT /api/projects/{project_id}, up to update_one
update_project(req) ==
    /\ Ready
    /\ req.method = "PUT" /\ req.coll = "projects" /\ req.seg # None
    /\ WorkerFree
    /\ Route(req) = "update_project"
    /\ LET auth == require_admin(ADMIN_TOKEN, req.token)
           ids == {n \in DOMAIN project : project_filter(project[n], ObjectId(req.seg))}
           Fail(resp) == /\ Respond("update_project", resp)
                         /\ UNCHANGED <<project, inflight>>
       IN  IF auth # NoAuthError THEN Fail(Raised(auth))
           ELSE IF NothingToUpdate(NonNull(req.body))
           THEN Fail(ExceptException(HTTPException(400, <<"Nothing to update">>)))
           ELSE IF ~ObjectIdValid(req.seg) THEN Fail(ExceptException(InvalidId))
           ELSE IF ids = {}
           THEN Fail(ExceptException(HTTPException(404, <<"Project not found">>)))
           ELSE /\ project' = SetOne(project, ids, update_project_set(req.body, now))
                /\ Wait("update_project_find", req.seg)
                /\ Silent
    /\ UNCHANGED <<ADMIN_TOKEN, article, oidCounter, now, deletedOk>>

update_project_find(w) ==
    /\ Ready
    /\ w.pc = "update_project_find"
    /\ Respond("update_project", FindAndSerialize(project, w.id))
    /\ Resume(w)
    /\ UNCHANGED <<ADMIN_TOKEN, article, project, oidCounter, now, deletedOk>>

\* DELETE /api/projects/{project_id}
delete_project(req) ==
    /\ Ready
    /\ req.method = "DELETE" /\ req.coll = "projects" /\ req.seg # None
    /\ Route(req) = "delete_project"
    /\ LET auth == require_admin(ADMIN_TOKEN, req.token)
           ids == {n \in DOMAIN project : project_filter(project[n], ObjectId(req.seg))}
           Fail(resp) == /\ Respond("delete_project", resp)
                         /\ UNCHANGED project
       IN  IF auth # NoAuthError THEN Fail(Raised(auth))
           ELSE IF ~ObjectIdValid(req.seg) THEN Fail(ExceptException(InvalidId))
           ELSE IF ids = {}
           THEN Fail(ExceptException(HTTPException(404, <<"Project not found">>)))
           ELSE /\ project' = DeleteOne(project, ids)
                /\ Respond("delete_project", Returned("object", <<StatusOk>>))
    /\ UNCHANGED <<ADMIN_TOKEN, article, oidCounter, now, inflight, deletedOk>>

---------------------------------------------------------------------------
\* The requests clients send

PostArticle == {Request("POST", "articles", None, t, None, b) :
                   t \in HeaderTokens, b \in ArticleBodies}
GetArticles == {Request("GET", "articles", None, None, None, EmptyDict)}
GetArticlesItem ==
    {Request("GET", "articles", s, None, None, EmptyDict) : s \in Segs}
    \cup {Request("GET", "articles", Str("admin"), t, q, EmptyDict) :
             t \in HeaderTokens, q \in {None, Bool(FALSE)}}
PutArticle == {Request("PUT", "articles", s, t, None, b) :
                  s \in Segs, t \in HeaderTokens, b \in ArticleUpdateBodies}
DeleteArticle == {Request("DELETE", "articles", s, t, None, EmptyDict) :
                     s \in Segs, t \in HeaderTokens}
PostProject == {Request("POST", "projects", None, t, None, b) :
                   t \in HeaderTokens, b \in ProjectBodies}
GetProjects == {Request("GET", "projects", None, None, None, EmptyDict)}
PutProject == {Request("PUT", "projects", s, t, None, b) :
                  s \in Segs, t \in HeaderTokens, b \in ProjectUpdateBodies}
DeleteProject == {Request("DELETE", "projects", s, t, None, EmptyDict) :
                     s \in Segs, t \in HeaderTokens}

Next ==
    \/ Tick
    \/ send
    \/ \E req \in PostArticle : create_article(req)
    \/ \E w \in Waitings : create_article_find(w)
    \/ \E req \in GetArticles : list_articles(req)
    \/ \E req \in GetArticlesItem : get_articles_item(req)
    \/ \E req \in PutArticle : update_article(req)
    \/ \E w \in Waitings : update_article_find(w)
    \/ \E req \in DeleteArticle : delete_article(req)
    \/ \E req \in PostProject : create_project(req)
    \/ \E w \in Waitings : create_project_find(w)
    \/ \E req \in GetProjects : list_projects(req)
    \/ \E req \in PutProject : update_project(req)
    \/ \E w \in Waitings : update_project_find(w)
    \/ \E req \in DeleteProject : delete_project(req)

Spec == Init /\ [][Next]_vars

---------------------------------------------------------------------------
\* Properties

\* the gate lets the request through
Authorized(req) == require_admin(ADMIN_TOKEN, req.token) = NoAuthError
\* ADMIN_TOKEN is unset or empty
Unconfigured == ADMIN_TOKEN \in {None, Str("")}

\* the step takes up request req
Serves(req) ==
    \/ list_articles(req)
    \/ get_articles_item(req)
    \/ delete_article(req)
    \/ list_projects(req)
    \/ delete_project(req)
    \/ create_article(req)
    \/ update_article(req)
    \/ create_project(req)
    \/ update_project(req)

\* the requests on the routes the interface table marks "admin token"
GatedRequests ==
    PostArticle \cup PutArticle \cup DeleteArticle \cup PostProject \cup PutProject
    \cup DeleteProject \cup {req \in GetArticlesItem : req.seg = Str("admin")}

\* the ids of the documents a response carries
BodyIds(resp) == {resp.body[i]["id"] : i \in {j \in DOMAIN resp.body : "id" \in DOMAIN resp.body[j]}}

\* the payload's fields that are not null
Supplied(body) == {k \in DOMAIN body : body[k] # None}

StoreUnchanged == article' = article /\ project' = project /\ inflight' = inflight

\* C1: with ADMIN_TOKEN unset or empty, every request on a gated route, whatever its
\* X-Admin-Token header, is answered 401 and no store operation is performed.
C1_UnconfiguredAnswers401 ==
    [][Unconfigured =>
          \A req \in GatedRequests :
              Serves(req) => last'.resp.status = 401 /\ StoreUnchanged]_vars

\* C2: an article whose DELETE succeeded stays stored with deleted=true and
\* published=false, and no response of GET /api/articles, GET /api/articles/{id} or
\* GET /api/articles/admin sent afterwards carries it.
C2_SoftDeletedStaysHidden ==
    \A n \in deletedOk :
        /\ n \in DOMAIN article
        /\ article[n]["deleted"] = Bool(TRUE)
        /\ article[n]["published"] = Bool(FALSE)
        /\ last.handler \in {"list_articles", "get_article", "admin_list_articles"}
              => HexStr(n) \notin BodyIds(last.resp)

\* C2's case: one article is soft-deleted and GET /api/articles has just listed another
C2_Witness ==
    /\ deletedOk # {}
    /\ last.handler = "list_articles"
    /\ BodyIds(last.resp) # {}

\* C3: once an article's published_at has a value, no request changes it.
C3_PublishedAtSetOnce ==
    [][\A n \in DOMAIN article :
          article[n]["published_at"] # None
              => article'[n]["published_at"] = article[n]["published_at"]]_vars

\* C4: every 401 of the gate is the same response, whether no secret is configured
\* or the token is missing or wrong.
C4_GateResponsesIndistinguishable ==
    last.resp.status = 401 =>
        \A cfg \in AdminTokens, h \in HeaderTokens :
            require_admin(cfg, h) # NoAuthError => Raised(require_admin(cfg, h)) = last.resp

\* the requests on /api/articles/{id} and /api/projects/{id} that C5 is about
C5_Requests ==
    {req \in GetArticlesItem : req.seg # Str("admin")}
    \cup {req \in PutArticle \cup PutProject : Supplied(req.body) # {}}
    \cup DeleteArticle \cup DeleteProject

\* no stored document of the request's collection has the id of the path
C5_NoRecord(req) ==
    LET coll == IF req.coll = "articles" THEN article ELSE project
    IN  \A n \in DOMAIN coll : coll[n]["_id"] # ObjectId(req.seg)

\* C5: GET, PUT and DELETE on an item (authorized where gated, PUT with a non-empty
\* patch) answer 404 for a well-formed id that matches no record and 400 for a
\* malformed id.
C5_NotFoundIs404 ==
    [][\A req \in C5_Requests :
          (Route(req) \in GatedHandlers => Authorized(req)) /\ Serves(req)
              => IF ObjectIdValid(req.seg)
                 THEN C5_NoRecord(req) => last'.resp.status = 404
                 ELSE last'.resp.status = 400]_vars

\* C6: an authorized GET /api/articles/admin is answered by the admin listing, with
\* exactly the non-deleted articles (of the given published value, when given).
C6_AdminListingServed ==
    [][\A req \in GetArticlesItem :
          req.seg = Str("admin") /\ Authorized(req) /\ Serves(req)
              => /\ last'.handler = "admin_list_articles"
                 /\ last'.resp.status = 200
                 /\ BodyIds(last'.resp) =
                       {HexStr(n) : n \in {m \in DOMAIN article :
                           /\ article[m]["deleted"] # Bool(TRUE)
                           /\ req.query # None => article[m]["published"] = req.query}}]_vars

C7_EmptyPuts == {req \in PutArticle \cup PutProject : Supplied(req.body) = {}}

\* C7: an authorized PUT on an article or a project whose payload has no non-null
\* field is answered 400 and leaves every stored record as it was.  (A PUT step
\* either answers as update_article or update_project, or answers nothing yet and
\* waits for its find_one: no other step need be looked at.)
C7_EmptyPutRejected ==
    [][(last'.handler \in {"update_article", "update_project"}
           \/ (last' = NoResponse /\ inflight' # inflight))
          => (\/ last'.resp.status = 400 /\ StoreUnchanged
              \/ \A req \in C7_EmptyPuts :
                    ~(Authorized(req) /\ (update_article(req) \/ update_project(req))))]_vars

\* C7's case: an empty PUT on an article was just refused while articles are stored
\* and the clock has moved on since they were written
C7_Witness ==
    /\ last = [handler |-> "update_article",
               resp |-> Raised(HTTPException(400, <<"400", "Nothing to update">>))]
    /\ \E n \in DOMAIN article : article[n]["updated_at"] # Datetime(now)

\* what a PUT with payload body, taken at time now, does to the stored record old
\* when the fields in extra may change besides the supplied ones and updated_at
PutFrame(old, new, body, extra) ==
    /\ DOMAIN new = DOMAIN old
    /\ \A k \in DOMAIN old :
          IF k \in Supplied(body) THEN new[k] = body[k]
          ELSE IF k = "updated_at" THEN new[k] = Datetime(now)
          ELSE k \notin extra => new[k] = old[k]

\* a PUT step that matched a record frames the collection as PutFrame says
PutFrames(coll, collNew, req, extra) ==
    \A n \in DOMAIN coll :
        /\ n \in DOMAIN collNew
        /\ IF coll[n]["_id"] = ObjectId(req.seg)
           THEN PutFrame(coll[n], collNew[n], req.body, extra)
           ELSE collNew[n] = coll[n]

C9_DeletedIsUnpublishedForever ==
    /\ [](\A n \in DOMAIN article :
             article[n]["deleted"] = Bool(TRUE) => article[n]["published"] = Bool(FALSE))
    /\ [][\A n \in DOMAIN article :
             /\ n \in DOMAIN article'
             /\ article[n]["deleted"] = Bool(TRUE)
                   => article'[n]["deleted"] = Bool(TRUE)]_vars

\* C9's case: every id names a deleted article and a PUT on one of them was just
\* refused as not found
C9_Witness ==
    /\ DOMAIN article = Oids
    /\ \A n \in Oids : article[n]["deleted"] = Bool(TRUE)
    /\ last = [handler |-> "update_article",
               resp |-> Raised(HTTPException(400, <<"404", "Article not found">>))]

\* C10: a PUT /api/articles/{id} answered 200 never carries a record with
\* deleted=true.
C10_PutNeverReturnsDeleted ==
    last.handler = "update_article" /\ last.resp.status = 200
        => last.resp.body[1]["deleted"] # Bool(TRUE)

=============================================================================
